---- MODULE Spec2Model ----
(***************************************************************************)
(* A model of mold's .gdb_index writer, src/elf/gdb-index.cc.              *)
(*                                                                         *)
(* Five specifications share the module's variables:                       *)
(*   SpecHash    gdb_hash applied to two names;                            *)
(*   SpecRanges  read_address_ranges and the filter of read_compunits on   *)
(*               one compunit;                                             *)
(*   Spec        write_gdb_index, task by task, run twice on one input;    *)
(*   FairSpec    Spec with the symbol table loop running on;               *)
(*   SpecPub     the table loop of read_pubnames on the bytes of one       *)
(*               section.                                                  *)
(*                                                                         *)
(* A 32-bit word that can exceed 2^31-1 is kept as a pair <<hi16, lo16>>   *)
(* (the hash) or as its four little-endian bytes (the output buffer), so   *)
(* that u32 arithmetic is exact.  Addresses are u64 in the program; here   *)
(* they are numbers modulo AddrMod, whose largest value AddrMod-1 plays    *)
(* the all-ones word.                                                      *)
(***************************************************************************)
EXTENDS Integers, Sequences, FiniteSets, TLC

VARIABLES
  hash_in,      \* SpecHash: the two names handed to gdb_hash
  hash_out,     \* SpecHash: <<>> before the calls, then the two hashes
  rcu,          \* SpecRanges: what read_address_ranges reads for one compunit
  rraw,         \* SpecRanges: what read_address_ranges returned, once called
  rout,         \* SpecRanges: the compunit's ranges, once read and filtered
  phase,        \* Spec: where write_gdb_index is
  inp,          \* Spec: the input: the compunits of .debug_info, ctx.shdr
  cus,          \* Spec: std::vector<Compunit> cus
  tasks,        \* Spec: the tasks of the running parallel loop that have ended
  estimator,    \* Spec: HyperLogLog estimator
  map,          \* Spec: ConcurrentMap<MapValue> map
  entries,      \* Spec: std::vector<MapValue *> entries, as slots of map
  lay,          \* Spec: SectionHeader hdr, ht_size and bufsize
  buf,          \* Spec: ctx.output_file->buf2
  ctr,          \* Spec: the indices of the sequential loops
  shdr,         \* Spec: ctx.gdb_index->shdr.sh_size and the calls of copy_buf
  run,          \* Spec: 1 in the first run on the input, 2 in the second
  first_buf,    \* Spec: the buffer the first run produced
  pubs,         \* Spec: per object file, where its read_pubnames task is
  isec,         \* SpecPub: isec.contents, the bytes of a pubnames section
  contents,     \* SpecPub: the offset in isec at which the view contents begins
  data,         \* SpecPub: the view data as [lo, hi, cu], <<>> outside a table
  pushed,       \* SpecPub: the tuples pushed to the compunits' nametypes
  pub_state     \* SpecPub: where the call of read is

hvars == <<hash_in, hash_out>>
rvars == <<rcu, rraw, rout>>
pvars == <<phase, inp, cus, tasks, estimator, map, entries, lay, buf, ctr, shdr,
           run, first_buf, pubs>>
tvars == <<isec, contents, data, pushed, pub_state>>
vars == <<hvars, rvars, tvars, pvars, tvars>>

----------------------------------------------------------------------------
(* Bounds *)

\* Longest name handed to gdb_hash in SpecHash.
MaxNameLen == 3

\* Addresses are numbers modulo AddrMod (the program's are modulo 2^64).
AddrMod == 4

\* Most (lo, hi) pairs before the terminator of a .debug_ranges list.
MaxPairs == 2

\* Most entries before end_of_list in a .debug_rnglists list.
MaxRle == 2

\* Most compunits in .debug_info.
MaxCus == 2

\* Most compunits of an input for which ctx.shdr is not set.
MaxCusNoShdr == 1

----------------------------------------------------------------------------
(* Range decoders and read_address_ranges *)

Addr == 0 .. AddrMod - 1

\* ~0 as a word.
AllOnes == AddrMod - 1

\* u64 addition.
AddU64(a, b) == (a + b) % AddrMod

\* A list in memory starts at cell offset off: cell k of it is mem[off + k + 1].
Cell(mem, off) == mem[off + 1]

\* for (i64 i = 0; range[i] || range[i + 1]; i += 2)
\*   if (range[i] + 1 == 0) base = range[i + 1];
\*   else vec.emplace_back(range[i] + base, range[i + 1] + base);
RECURSIVE DebugRangeLoop(_, _, _, _)
DebugRangeLoop(range, i, base, vec) ==
  LET lo == Cell(range, i)
      hi == Cell(range, i + 1)
  IN  IF lo = 0 /\ hi = 0 THEN vec
      ELSE IF AddU64(lo, 1) = 0 THEN DebugRangeLoop(range, i + 2, hi, vec)
      ELSE DebugRangeLoop(range, i + 2, base,
                          Append(vec, <<AddU64(lo, base), AddU64(hi, base)>>))

\* A decoder that forgets the base it is given.
read_debug_range_no_base(debug_ranges, off, base) ==
  DebugRangeLoop(debug_ranges, off, 0, <<>>)

\* read_debug_range(range, base), range = debug_ranges + off.
read_debug_range(debug_ranges, off, base) ==
  DebugRangeLoop(debug_ranges, off, base, <<>>)

\* addrx[i]
AddrxAt(addrx, i) == addrx[i + 1]

\* read_rnglist_range: one entry per turn of the for (;;) loop; p is the
\* position of rnglist.  An entry byte the switch has no case for is
\* stepped over.
RECURSIVE RnglistLoop(_, _, _, _, _)
RnglistLoop(vec, rnglist, p, addrx, base) ==
  LET kind == Cell(rnglist, p)
      v1   == Cell(rnglist, p + 1)
      v2   == Cell(rnglist, p + 2)
  IN  CASE kind = "end_of_list" -> vec
        [] kind = "base_addressx" ->
             RnglistLoop(vec, rnglist, p + 2, addrx, AddrxAt(addrx, v1))
        [] kind = "startx_endx" ->
             RnglistLoop(Append(vec, <<AddrxAt(addrx, v1), AddrxAt(addrx, v2)>>),
                         rnglist, p + 3, addrx, base)
        [] kind = "startx_length" ->
             RnglistLoop(Append(vec, <<AddrxAt(addrx, v1), AddU64(AddrxAt(addrx, v1), v2)>>),
                         rnglist, p + 3, addrx, base)
        [] kind = "offset_pair" ->
             RnglistLoop(Append(vec, <<AddU64(base, v1), AddU64(base, v2)>>),
                         rnglist, p + 3, addrx, base)
        [] kind = "base_address" ->
             RnglistLoop(vec, rnglist, p + 2, addrx, v1)
        [] kind = "start_end" ->
             RnglistLoop(Append(vec, <<v1, v2>>), rnglist, p + 3, addrx, base)
        [] kind = "start_length" ->
             RnglistLoop(Append(vec, <<v1, AddU64(v1, v2)>>), rnglist, p + 3, addrx, base)
        [] OTHER -> RnglistLoop(vec, rnglist, p + 1, addrx, base)

\* A decoder that starts from base 0 instead of the base it is given.
read_rnglist_range_base0(vec, debug_rnglists, off, addrx, base) ==
  RnglistLoop(vec, debug_rnglists, off, addrx, 0)

\* read_rnglist_range(vec, rnglist, addrx, base), rnglist = debug_rnglists + off.
read_rnglist_range(vec, debug_rnglists, off, addrx, base) ==
  RnglistLoop(vec, debug_rnglists, off, addrx, base)

\* for (i64 i = 0; i < num_offsets; i++)
\*   read_rnglist_range<E>(vec, base + offsets[i], addrx, low_pc.value);
RECURSIVE RnglistxLoop(_, _, _)
RnglistxLoop(d, i, vec) ==
  IF i > Len(d.rnglist_offsets) THEN vec
  ELSE RnglistxLoop(d, i + 1,
         read_rnglist_range(vec, d.debug_rnglists,
                            d.rnglists_base + d.rnglist_offsets[i],
                            d.addrx, d.low_pc.value))

AddrxForms == {"addrx", "addrx1", "addrx2", "addrx4"}
LengthForms == {"udata", "data1", "data2", "data4", "data8"}

\* What read_address_ranges does: it returns a vector or ends in Fatal.
Ranges(vec) == [state |-> "returned", ranges |-> vec]
Fatal == [state |-> "fatal", ranges |-> <<>>]
Pending == [state |-> "pending", ranges |-> <<>>]

\* The contiguous case: if (low_pc.form && high_pc.form) { ... }
ContiguousRange(d) ==
  LET lo == IF d.low_pc.form = "addr" THEN d.low_pc.value
            ELSE AddrxAt(d.addrx, d.low_pc.value)
      hf == d.high_pc.form
  IN  IF d.low_pc.form \notin {"addr"} \cup AddrxForms THEN Fatal
      ELSE IF hf = "addr" THEN Ranges(<<<<lo, d.high_pc.value>>>>)
      ELSE IF hf \in AddrxForms THEN Ranges(<<<<lo, AddrxAt(d.addrx, d.high_pc.value)>>>>)
      ELSE IF hf \in LengthForms THEN Ranges(<<<<lo, AddU64(lo, d.high_pc.value)>>>>)
      ELSE Fatal

\* read_address_ranges, from the records its attribute loop has collected:
\* d.low_pc, d.high_pc, d.ranges ([form, value], form "none" for 0),
\* d.rnglists_base (-1 when absent) and d.addrx.
read_address_ranges(d) ==
  IF d.ranges.form # "none" THEN
    IF d.version <= 4
      THEN Ranges(read_debug_range(d.debug_ranges, d.ranges.value, d.low_pc.value))
    ELSE IF d.ranges.form = "sec_offset"
      THEN Ranges(read_rnglist_range(<<>>, d.debug_rnglists, d.ranges.value,
                                     d.addrx, d.low_pc.value))
    ELSE IF d.rnglists_base = -1 THEN Fatal
    ELSE Ranges(RnglistxLoop(d, 1, <<>>))
  ELSE IF d.low_pc.form # "none" /\ d.high_pc.form # "none" THEN ContiguousRange(d)
  ELSE Ranges(<<>>)

\* A filter that forgets the ranges of length zero.
IsEmptyRangeZeroOnly(p) == p[1] = 0

\* return p.first == 0 || p.first == p.second;
IsEmptyRange(p) == p[1] = 0 \/ p[1] = p[2]

\* std::erase_if(cus[i].ranges, ...)
RECURSIVE EraseEmpty(_)
EraseEmpty(vec) ==
  IF vec = <<>> THEN <<>>
  ELSE IF IsEmptyRange(Head(vec)) THEN EraseEmpty(Tail(vec))
  ELSE <<Head(vec)>> \o EraseEmpty(Tail(vec))

\* The body of the parallel_for of read_compunits for one compunit.
CompunitRanges(d) ==
  LET r == read_address_ranges(d)
  IN  IF r.state = "fatal" THEN Fatal ELSE Ranges(EraseEmpty(r.ranges))

----------------------------------------------------------------------------
(* gdb_hash *)

\* Half of a u32: the hash is kept as <<hi, lo>>, value hi * 2^16 + lo.
Half == 65536

\* 'A', 'Z', 'a' as the code writes them.
ChA == 65
ChZ == 90
Cha == 97

\* The bytes names are made of in SpecHash: 'A' 'a' 'Z' 'z'.
HashAlphabet == {65, 97, 90, 122}

\* A hash that keeps the case of its bytes.
NoLowerByte(c) == c

\* if ('A' <= c && c <= 'Z') c = 'a' + c - 'A';   (c is a u8)

LowerByte(c) == IF ChA <= c /\ c <= ChZ THEN (Cha + c - ChA) % 256 ELSE c

\* h = h * 67 + c - 113 in u32 arithmetic, on the halves of h.
HashStep(h, c) ==
  LET t     == h[2] * 67 + LowerByte(c) - 113 + Half
      lo    == t % Half
      carry == (t \div Half) - 1
      hi    == (h[1] * 67 + carry + Half) % Half
  IN  <<hi, lo>>

RECURSIVE HashFrom(_, _, _)
HashFrom(name, i, h) ==
  IF i > Len(name) THEN h ELSE HashFrom(name, i + 1, HashStep(h, name[i]))

\* u32 h = 0; for (u8 c : name) ...; return h;
gdb_hash(name) == HashFrom(name, 1, <<0, 0>>)

\* The sequences over S of length n, and of length at most n.
RECURSIVE SeqsOfLen(_, _)
SeqsOfLen(S, n) ==
  IF n = 0 THEN {<<>>} ELSE {Append(s, x) : s \in SeqsOfLen(S, n - 1), x \in S}

SeqsUpTo(S, n) == UNION {SeqsOfLen(S, k) : k \in 0 .. n}

HashNames == SeqsUpTo(HashAlphabet, MaxNameLen)

----------------------------------------------------------------------------
(* Orders, sorting and the byte encodings write_gdb_index uses *)

\* a < b on u32 values kept as <<hi, lo>>.
HashLess(a, b) == a[1] < b[1] \/ (a[1] = b[1] /\ a[2] < b[2])

\* std::string_view operator<: bytewise, a proper prefix first.
RECURSIVE NameLess(_, _)
NameLess(a, b) ==
  IF b = <<>> THEN FALSE
  ELSE IF a = <<>> THEN TRUE
  ELSE IF Head(a) # Head(b) THEN Head(a) < Head(b)
  ELSE NameLess(Tail(a), Tail(b))

\* NameType::operator<: std::tuple(hash, type, name) < std::tuple(...)
NameTypeLess(x, y) ==
  \/ HashLess(x.hash, y.hash)
  \/ x.hash = y.hash /\ x.type < y.type
  \/ x.hash = y.hash /\ x.type = y.type /\ NameLess(x.name, y.name)

\* sort(cu.nametypes): insertion of each element behind those not above it.
RECURSIVE InsertNameType(_, _)
InsertNameType(x, sorted) ==
  IF sorted = <<>> THEN <<x>>
  ELSE IF NameTypeLess(x, Head(sorted)) THEN <<x>> \o sorted
  ELSE <<Head(sorted)>> \o InsertNameType(x, Tail(sorted))

RECURSIVE SortNameTypes(_)
SortNameTypes(vec) ==
  IF vec = <<>> THEN <<>>
  ELSE InsertNameType(vec[Len(vec)], SortNameTypes(SubSeq(vec, 1, Len(vec) - 1)))

\* remove_duplicates(cu.nametypes): of equal neighbours the first stays.
RECURSIVE RemoveDuplicates(_)
RemoveDuplicates(vec) ==
  IF Len(vec) <= 1 THEN vec
  ELSE IF vec[1] = vec[2] THEN RemoveDuplicates(Tail(vec))
  ELSE <<vec[1]>> \o RemoveDuplicates(Tail(vec))

\* The n low bytes of the number v, least significant first.
RECURSIVE LE(_, _)
LE(v, n) == IF n = 0 THEN <<>> ELSE <<v % 256>> \o LE(v \div 256, n - 1)

\* a | b on numbers below 2^n.
RECURSIVE BitOr(_, _, _)
BitOr(a, b, n) ==
  IF n = 0 THEN 0
  ELSE (IF a % 2 = 1 \/ b % 2 = 1 THEN 1 ELSE 0) + 2 * BitOr(a \div 2, b \div 2, n - 1)

\* The buffer is a sequence of bytes; the byte at offset o is buf[o + 1].
WriteBytes(b, off, bytes) ==
  [x \in 1 .. Len(b) |->
     IF x > off /\ x <= off + Len(bytes) THEN bytes[x - off] ELSE b[x]]

ReadBytes(b, off, n) == SubSeq(b, off + 1, off + n)

\* A ul32 read as a number; for the words that stay below 2^31.
ReadU32(b, off) ==
  b[off + 1] + 256 * b[off + 2] + 65536 * b[off + 3] + 16777216 * b[off + 4]

Zeros(n) == [x \in 1 .. n |-> 0]

----------------------------------------------------------------------------
(* write_gdb_index: data *)

\* The concatenation of a sequence of sequences.
RECURSIVE Flatten(_)
Flatten(ss) == IF ss = <<>> THEN <<>> ELSE Head(ss) \o Flatten(Tail(ss))

\* A compunit of the input: the u32 length field of its unit header (-1 for
\* the DWARF64 marker 0xffffffff), what read_address_ranges reads for it,
\* and the records of the .debug_gnu_pubnames table of its object file.
InputCu(len, d, po, recs) ==
  [len_field |-> len, dwarf |-> d, pub_offset |-> po, recs |-> recs]
PubRec(name, type) == [name |-> name, type |-> type]

\* Compunit{p - begin, len}
Compunit(offset, size) ==
  [offset |-> offset, size |-> size, ranges |-> <<>>, nametypes |-> <<>>,
   entries |-> <<>>]

\* NameType{name, gdb_hash(name), type}
NameType(name, type) == [name |-> name, hash |-> gdb_hash(name), type |-> type]

\* A bucket of the map: entries[i].key set or not, and entries[i].value.
EmptySlot ==
  [used |-> FALSE, name |-> <<>>, hash |-> <<0, 0>>, count |-> 0,
   name_offset |-> 0, type_offset |-> 0]

\* MapValue value = {nt.name, nt.hash};
MapValue(name, hash) ==
  [used |-> TRUE, name |-> name, hash |-> hash, count |-> 0,
   name_offset |-> 0, type_offset |-> 0]

\* ConcurrentMap<MapValue> map(n): n buckets, all free.
NewMap(n) == [nbuckets |-> n, slots |-> [x \in 1 .. n |-> EmptySlot]]

\* hash & mask for a mask below 2^16, mask + 1 a power of two.
HashAnd(hash, mask) == hash[2] % (mask + 1)

\* map.insert(name, hash, value): the bucket the key is in or is put in, 0
\* when every bucket holds another key.  Buckets are tried from the hash's
\* bucket on, one after the other.
MapBucket(m, name, hash) ==
  LET nb    == m.nbuckets
      at(t) == ((hash[2] + t) % nb) + 1
      hit   == {t \in 0 .. nb - 1 : ~m.slots[at(t)].used \/ m.slots[at(t)].name = name}
  IN  IF nb = 0 \/ hit = {} THEN 0
      ELSE at(CHOOSE t \in hit : \A t2 \in hit : t <= t2)

\* An increment that is lost when the count is already positive.
CountLost(c) == IF c = 0 THEN 1 ELSE c

\* ent->count++
CountInc(c) == c + 1

\* The map after map.insert(nt.name, nt.hash, value) found bucket b, and
\* ent->count++.
MapAfterInsert(m, b, name, hash) ==
  LET old == IF m.slots[b].used THEN m.slots[b] ELSE MapValue(name, hash)
  IN  [m EXCEPT !.slots[b] = [old EXCEPT !.count = CountInc(old.count)]]

\* estimator.get_cardinality(): the number of distinct hashes inserted.
GetCardinality(e) == Cardinality(e)

\* bit_ceil(n): the least power of two that is at least n.
RECURSIVE BitCeilFrom(_, _)
BitCeilFrom(n, pw) == IF pw >= n THEN pw ELSE BitCeilFrom(n, 2 * pw)
bit_ceil(n) == BitCeilFrom(n, 1)

\* The argument of the map's constructor: get_cardinality() * 3 / 2.
MapSizeArg(card) == (card * 3) \div 2

\* The argument of bit_ceil for ht_size: get_cardinality() * 5 / 4.
HtSizeArg(card) == (card * 5) \div 4

\* get_cu of read_pubnames: the index of the compunit at offset, 0 for none.
get_cu(cs, offset) ==
  IF \E i \in 1 .. Len(cs) : cs[i].offset = offset
    THEN CHOOSE i \in 1 .. Len(cs) :
           cs[i].offset = offset /\ \A i2 \in 1 .. i - 1 : cs[i2].offset # offset
    ELSE 0

RECURSIVE SumSeq(_)
SumSeq(q) == IF q = <<>> THEN 0 ELSE Head(q) + SumSeq(Tail(q))

\* The compunits the loop over .debug_info pushes: offsets p - begin, sizes
\* len = length field + 4.
ParseCompunits(in) ==
  [i \in 1 .. Len(in) |->
     Compunit(SumSeq([k \in 1 .. i - 1 |-> in[k].len_field + 4]), in[i].len_field + 4)]

\* std::tuple(a->hash, a->name) < std::tuple(b->hash, b->name)
EntryLess(m, a, b) ==
  \/ HashLess(m.slots[a].hash, m.slots[b].hash)
  \/ m.slots[a].hash = m.slots[b].hash /\ NameLess(m.slots[a].name, m.slots[b].name)

RECURSIVE InsertEntry(_, _, _)
InsertEntry(m, x, sorted) ==
  IF sorted = <<>> THEN <<x>>
  ELSE IF EntryLess(m, x, Head(sorted)) THEN <<x>> \o sorted
  ELSE <<Head(sorted)>> \o InsertEntry(m, x, Tail(sorted))

\* tbb::parallel_sort(entries, ...)
RECURSIVE SortEntries(_, _)
SortEntries(m, vec) ==
  IF vec = <<>> THEN <<>>
  ELSE InsertEntry(m, vec[Len(vec)], SortEntries(m, SubSeq(vec, 1, Len(vec) - 1)))

\* for (i64 i = 0; i < map.nbuckets; i++) if (map.entries[i].key) push_back
LiveBuckets(m) == SelectSeq([x \in 1 .. m.nbuckets |-> x], LAMBDA x : m.slots[x].used)

\* A type array without the room for its count.
TypeStrideNoCount(e) == e.count * 4

\* offset += ent->count * 4 + 4;
TypeStride(e) == e.count * 4 + 4

\* offset += ent->name.size() + 1;
NameStride(e) == Len(e.name) + 1

\* The two loops that give every entry its type_offset and its name_offset.
TypeOffsetOf(m, es, k) == SumSeq([x \in 1 .. k - 1 |-> TypeStride(m.slots[es[x]])])
NameOffsetOf(m, es, k) ==
  SumSeq([x \in 1 .. Len(es) |-> TypeStride(m.slots[es[x]])])
    + SumSeq([x \in 1 .. k - 1 |-> NameStride(m.slots[es[x]])])
PoolSize(m, es) ==
  SumSeq([x \in 1 .. Len(es) |-> TypeStride(m.slots[es[x]])])
    + SumSeq([x \in 1 .. Len(es) |-> NameStride(m.slots[es[x]])])

MapWithOffsets(m, es) ==
  [m EXCEPT !.slots =
     [b \in 1 .. m.nbuckets |->
        IF \E k \in 1 .. Len(es) : es[k] = b
          THEN LET k == CHOOSE k \in 1 .. Len(es) : es[k] = b
               IN  [m.slots[b] EXCEPT !.type_offset = TypeOffsetOf(m, es, k),
                                      !.name_offset = NameOffsetOf(m, es, k)]
          ELSE m.slots[b]]]

\* sizeof(SectionHeader), and its first field.
HdrSize == 24
HdrVersion == 7

\* Lines 620-630 and 643: the header's offsets, ht_size and bufsize.
Layout(cs, card, pool) ==
  LET cu_list  == HdrSize
      cu_types == cu_list + Len(cs) * 16
      symtab   == cu_types + SumSeq([i \in 1 .. Len(cs) |-> Len(cs[i].ranges) * 20])
      ht       == bit_ceil(HtSizeArg(card))
  IN  [cu_list_offset |-> cu_list, cu_types_offset |-> cu_types,
       ranges_offset |-> cu_types, symtab_offset |-> symtab,
       const_pool_offset |-> symtab + ht * 8, ht_size |-> ht,
       bufsize |-> symtab + ht * 8 + pool]

NoLayout ==
  [cu_list_offset |-> 0, cu_types_offset |-> 0, ranges_offset |-> 0,
   symtab_offset |-> 0, const_pool_offset |-> 0, ht_size |-> 0, bufsize |-> 0]

\* memcpy(buf, &hdr, sizeof(hdr))
HeaderBytes(l) ==
  LE(HdrVersion, 4) \o LE(l.cu_list_offset, 4) \o LE(l.cu_types_offset, 4)
    \o LE(l.ranges_offset, 4) \o LE(l.symtab_offset, 4) \o LE(l.const_pool_offset, 4)

\* The CU list: (ul64 offset, ul64 size) for every compunit.
CuListBytes(cs) == Flatten([i \in 1 .. Len(cs) |-> LE(cs[i].offset, 8) \o LE(cs[i].size, 8)])

\* The address areas: (ul64 first, ul64 second, ul32 i) for every range of
\* compunit number i, counted from 0.
AddressBytes(cs) ==
  Flatten([i \in 1 .. Len(cs) |->
            Flatten([r \in 1 .. Len(cs[i].ranges) |->
                      LE(cs[i].ranges[r][1], 8) \o LE(cs[i].ranges[r][2], 8)
                        \o LE(i - 1, 4)])])

\* buf2.resize(bufsize) of the empty buf2, then the header, the CU list and
\* the address areas, written one behind the other from offset 0.
FixedPart(l, cs) ==
  WriteBytes(Zeros(l.bufsize), 0, HeaderBytes(l) \o CuListBytes(cs) \o AddressBytes(cs))

\* ht[j * 2] || ht[j * 2 + 1]
SlotOccupied(b, l, j) == ReadBytes(b, l.symtab_offset + 8 * j, 8) # Zeros(8)

\* A probe that always steps by one.
ProbeStepOne(hash, mask) == 1

\* u32 step = (hash & mask) | 1;
ProbeStep(hash, mask) == BitOr(HashAnd(hash, mask), 1, 16)

\* u32 j = hash & mask;
ProbeStart(hash, mask) == HashAnd(hash, mask)

\* A word that leaves the type byte out.
TypeWordNoType(type, i) == LE(i, 4)

\* (cu.nametypes[j].type << 24) | i, as the four bytes of the ul32.
TypeWord(type, i) == LE(i, 3) \o <<BitOr(type, (i \div 16777216) % 256, 8)>>

\* The loop that writes the types run from the last compunit to the first.
TypeJobsBackwards(cs) ==
  LET jobs == Flatten([i \in 1 .. Len(cs) |->
                         [j \in 1 .. Len(cs[i].nametypes) |-> <<i, j>>]])
  IN  [x \in 1 .. Len(jobs) |-> jobs[Len(jobs) + 1 - x]]

\* The (i, j) of the loop that writes the types, in its order, i from 1.
TypeJobs(cs) ==
  Flatten([i \in 1 .. Len(cs) |-> [j \in 1 .. Len(cs[i].nametypes) |-> <<i, j>>]])

\* write_string(buf, name): the bytes of the name, then a NUL.
write_string(b, off, name) == WriteBytes(b, off, name \o <<0>>)

----------------------------------------------------------------------------
(* SpecRanges: the inputs of read_address_ranges *)

Rec(form, value) == [form |-> form, value |-> value]
NoRec == Rec("none", 0)

\* The address table of the compunit in .debug_addr, two entries long.
AddrxTables == {<<0, 2>>, <<2, 1>>}
AddrxIndex == {0, 1}

\* A compunit's records; the sections it does not use are empty.
Dwarf(v, lo, hi, rg, rb, ax, dr, dl, ro) ==
  [version |-> v, low_pc |-> lo, high_pc |-> hi, ranges |-> rg,
   rnglists_base |-> rb, addrx |-> ax, debug_ranges |-> dr,
   debug_rnglists |-> dl, rnglist_offsets |-> ro]

\* No compunit: the value of rcu outside SpecRanges.
NoCu == Dwarf(0, NoRec, NoRec, NoRec, -1, <<>>, <<>>, <<>>, <<>>)

\* .debug_ranges lists: pairs, not both words zero, then (0, 0).
RangePairs == {p \in Addr \X Addr : p # <<0, 0>>}
LegacyList(ps) == Flatten(ps) \o <<0, 0>>

\* What precedes the list in .debug_ranges: nothing, or another list.
LegacyPrefixes == {<<>>, <<1, 2, 0, 0>>}

\* DWARF 2..4 with DW_AT_ranges: a list of up to MaxPairs pairs.
LegacyCu(d) ==
  \E k \in 0 .. MaxPairs : \E ps \in SeqsOfLen(RangePairs, k) :
    \E v \in {2, 4}, lp \in {NoRec} \cup {Rec("addr", lv) : lv \in Addr},
       hp \in {NoRec, Rec("data4", 1)}, pre \in LegacyPrefixes :
      d = Dwarf(v, lp, hp, Rec("sec_offset", Len(pre)), -1, <<>>,
                pre \o LegacyList(ps), <<>>, <<>>)

\* .debug_rnglists entries; "pad" is an entry byte the decoder has no case for.
RleOperands == {1, AllOnes}
RleEntries ==
  UNION {{<<"base_addressx", i>> : i \in AddrxIndex},
         {<<"startx_endx", i, j>> : i \in AddrxIndex, j \in AddrxIndex},
         {<<"startx_length", i, n>> : i \in AddrxIndex, n \in RleOperands},
         {<<"offset_pair", a, b>> : a \in RleOperands, b \in RleOperands},
         {<<"base_address", a>> : a \in RleOperands},
         {<<"start_end", a, b>> : a \in RleOperands, b \in RleOperands},
         {<<"start_length", a, n>> : a \in RleOperands, n \in RleOperands},
         {<<"pad">>}}
RleList(es) == Flatten(es) \o <<"end_of_list">>

\* DWARF 5, DW_AT_ranges of form sec_offset: one list of up to MaxRle entries
\* at the given offset.
RnglistCu(d) ==
  \E k \in 0 .. MaxRle : \E es \in SeqsOfLen(RleEntries, k) :
    \E lv \in {0, 1}, t \in AddrxTables, pre \in {<<>>, <<"end_of_list">>} :
      d = Dwarf(5, Rec("addr", lv), NoRec, Rec("sec_offset", Len(pre)), -1, t, <<>>,
                pre \o RleList(es), <<>>)

\* DWARF 5, DW_AT_ranges of form rnglistx: the offset table at rnglists_base
\* names two lists, or DW_AT_rnglists_base is missing.
RnglistxCu(d) ==
  \E l1 \in SeqsUpTo(RleEntries, 1), l2 \in SeqsUpTo(RleEntries, 1) :
    \E lv \in {0, 1}, x \in {0, 1}, b \in {-1, 0}, t \in AddrxTables :
      d = Dwarf(5, Rec("addr", lv), NoRec, Rec("rnglistx", x), b, t, <<>>,
                RleList(l1) \o RleList(l2), <<0, Len(RleList(l1))>>)

\* No DW_AT_ranges: low_pc and high_pc of every form the switches name, and
\* of one they do not.
LowForms == {"none", "addr", "addrx", "addrx1", "addrx2", "addrx3", "addrx4", "data4"}
HighForms == {"none", "addr", "addrx", "addrx1", "addrx2", "addrx3", "addrx4",
              "udata", "data1", "data2", "data4", "data8", "strp"}
AddrxLikeForms == AddrxForms \cup {"addrx3"}
ValuesOf(form) == IF form = "none" THEN {0}
                  ELSE IF form \in AddrxLikeForms THEN AddrxIndex ELSE {0, 1, AllOnes}

\* Scenario 4 of the specification with the addresses scaled to AddrMod:
\* low_pc 1 and the list [(1, 2), (~0, 2), (0, 1), (0, 0)].
Scenario4Cu(d) ==
  d = Dwarf(4, Rec("addr", 1), NoRec, Rec("sec_offset", 0), -1, <<>>,
            <<1, 2, AllOnes, 2, 0, 1, 0, 0>>, <<>>, <<>>)

ContiguousCu(d) ==
  \E lf \in LowForms, hf \in HighForms :
    \E v \in {4, 5}, t \in AddrxTables, lv \in ValuesOf(lf), hv \in ValuesOf(hf) :
      d = Dwarf(v, Rec(lf, lv), Rec(hf, hv), NoRec, -1, t, <<>>, <<>>, <<>>)

----------------------------------------------------------------------------
(* Spec: the inputs of write_gdb_index *)

\* The names "a", "A", "d", "h".  gdb_hash gives "a" and "A" one hash; the
\* hashes of "d" and "h" agree in their two low bits.
Name_a == <<97>>
Name_A == <<65>>
Name_d == <<100>>
Name_h == <<104>>

\* DW_AT_low_pc 1 of form addr, DW_AT_high_pc 2 of form data4.
DwarfContiguous ==
  Dwarf(4, Rec("addr", 1), Rec("data4", 2), NoRec, -1, <<>>, <<>>, <<>>, <<>>)

\* Neither DW_AT_ranges nor DW_AT_low_pc.
DwarfNoRange == Dwarf(5, NoRec, NoRec, NoRec, -1, <<>>, <<>>, <<>>, <<>>)

\* DW_AT_ranges with the list [(2, 1), (1, 1), (0, 2), (1, 3), (0, 0)].
DwarfList ==
  Dwarf(4, NoRec, NoRec, Rec("sec_offset", 0), -1, <<>>,
        <<2, 1, 1, 1, 0, 2, 1, 3, 0, 0>>, <<>>, <<>>)

\* The compunits an input is made of.  The type bytes are 0x30 and 0xb0.
\* The table of the compunit of length field 13 names the offset 17 behind
\* the start of its object file's .debug_info, where the next compunit is.
CuMenu ==
  {InputCu(8, DwarfContiguous, 0, <<>>),
   InputCu(9, DwarfNoRange, 0, <<PubRec(Name_a, 48)>>),
   InputCu(10, DwarfList, 0,
           <<PubRec(Name_A, 48), PubRec(Name_a, 48), PubRec(Name_a, 48)>>),
   InputCu(11, DwarfContiguous, 0,
           <<PubRec(Name_d, 176), PubRec(Name_a, 176), PubRec(Name_a, 48)>>),
   InputCu(12, DwarfList, 0,
           <<PubRec(Name_A, 48), PubRec(Name_d, 176)>>),
   InputCu(13, DwarfNoRange, 17, <<PubRec(Name_h, 48)>>),
   InputCu(-1, DwarfNoRange, 0, <<>>)}

Input(cs, has_shdr) == [cus |-> cs, has_shdr |-> has_shdr]
NoInput == Input(<<>>, FALSE)

\* The state in which write_gdb_index is called.
NoMap == NewMap(0)
NoCtr == [k |-> 0, j |-> 0]
NoShdr == [sh_size |-> 0, copies |-> 0]

\* The read_pubnames tasks before they start, one per object file: n the
\* records pushed, at the end of the vector as the running push_back read it
\* (-1 outside push_back); and data, per compunit, the elements that the
\* tasks sharing its nametypes vector have stored in the vector's memory.
NoPubs(n) ==
  [n |-> [f \in 1 .. n |-> 0], at |-> [f \in 1 .. n |-> -1],
   data |-> [c \in 1 .. n |-> <<>>]]

CallState ==
  /\ phase = "start"
  /\ cus = <<>>
  /\ tasks = {}
  /\ estimator = {}
  /\ map = NoMap
  /\ entries = <<>>
  /\ lay = NoLayout
  /\ buf = <<>>
  /\ ctr = NoCtr
  /\ shdr = NoShdr

----------------------------------------------------------------------------
(* Specifications *)

PipeIdle ==
  /\ phase = "idle"
  /\ inp = NoInput
  /\ cus = <<>>
  /\ tasks = {}
  /\ estimator = {}
  /\ map = NoMap
  /\ entries = <<>>
  /\ lay = NoLayout
  /\ buf = <<>>
  /\ ctr = NoCtr
  /\ shdr = NoShdr
  /\ run = 0
  /\ first_buf = <<>>
  /\ pubs = NoPubs(0)

PubIdle ==
  /\ isec = <<>>
  /\ contents = 0
  /\ data = <<>>
  /\ pushed = <<>>
  /\ pub_state = "idle"

HashIdle ==
  /\ hash_in = <<>>
  /\ hash_out = <<>>

RangesIdle ==
  /\ rcu = NoCu
  /\ rraw = Pending
  /\ rout = Pending

HashInit ==
  /\ hash_in \in HashNames \X HashNames
  /\ hash_out = <<>>
  /\ RangesIdle
  /\ PipeIdle
  /\ PubIdle

HashCall ==
  /\ hash_in # <<>>
  /\ hash_out = <<>>
  /\ hash_out' = <<gdb_hash(hash_in[1]), gdb_hash(hash_in[2])>>
  /\ UNCHANGED <<hash_in, rvars, pvars, tvars>>

HashNext == HashCall

SpecHash == HashInit /\ [][HashNext]_vars

RangesInit ==
  /\ \/ LegacyCu(rcu)
     \/ RnglistCu(rcu)
     \/ RnglistxCu(rcu)
     \/ ContiguousCu(rcu)
     \/ Scenario4Cu(rcu)
  /\ rraw = Pending
  /\ rout = Pending
  /\ HashIdle
  /\ PipeIdle
  /\ PubIdle

\* cus[i].ranges = read_address_ranges(ctx, cus[i].offset); std::erase_if(...)
ReadRanges ==
  /\ rcu # NoCu
  /\ rout = Pending
  /\ rraw' = read_address_ranges(rcu)
  /\ rout' = CompunitRanges(rcu)
  /\ UNCHANGED <<hvars, rcu, pvars, tvars>>

RangesNext == ReadRanges

SpecRanges == RangesInit /\ [][RangesNext]_vars

PipeInit ==
  /\ \E n \in 0 .. MaxCus : \E cs \in SeqsOfLen(CuMenu, n) : \E h \in BOOLEAN :
       /\ h \/ n <= MaxCusNoShdr
       /\ inp = Input(cs, h)
  /\ CallState
  /\ run = 1
  /\ first_buf = <<>>
  /\ pubs = NoPubs(Len(inp.cus))
  /\ HashIdle
  /\ RangesIdle
  /\ PubIdle

NCus == Len(inp.cus)
AllCus == 1 .. NCus

\* if (ctx.debug_info.empty())
DebugInfoNeverEmpty(in) == FALSE

DebugInfoEmpty(in) == in.cus = <<>>

\* Lines 561-577: .debug_info is absent or empty, and the function returns.
ReturnEmpty ==
  /\ phase = "start"
  /\ DebugInfoEmpty(inp)
  /\ phase' = "done"
  /\ UNCHANGED <<hvars, rvars, tvars, inp, cus, tasks, estimator, map, entries, lay, buf, ctr, shdr,
                 run, first_buf, pubs>>

\* Lines 514-523: the loop over .debug_info; a length field of 0xffffffff is
\* fatal.
ReadCompunits ==
  /\ phase = "start"
  /\ ~DebugInfoEmpty(inp)
  /\ IF \E i \in AllCus : inp.cus[i].len_field = -1
       THEN phase' = "fatal" /\ cus' = cus
       ELSE phase' = "ranges" /\ cus' = ParseCompunits(inp.cus)
  /\ UNCHANGED <<hvars, rvars, tvars, inp, tasks, estimator, map, entries, lay, buf, ctr, shdr, run,
                 first_buf, pubs>>

\* The phase after a parallel loop over the compunits, once task i is the
\* last of them to end.
AfterLoop(i, next) == IF tasks \cup {i} = AllCus THEN next ELSE phase
TasksAfter(i) == IF tasks \cup {i} = AllCus THEN {} ELSE tasks \cup {i}

\* Lines 526-533, one task of the parallel_for.
ReadRangesTask(i) ==
  /\ phase = "ranges"
  /\ i \notin tasks
  /\ LET r == CompunitRanges(inp.cus[i].dwarf)
     IN  IF r.state = "fatal"
           THEN phase' = "fatal" /\ UNCHANGED <<cus, tasks>>
           ELSE /\ cus' = [cus EXCEPT ![i].ranges = r.ranges]
                /\ phase' = AfterLoop(i, "pubnames")
                /\ tasks' = TasksAfter(i)
  /\ UNCHANGED <<hvars, rvars, tvars, inp, estimator, map, entries, lay, buf, ctr, shdr, run, first_buf, pubs>>

\* Compunit *cu = get_cu(file.debug_info->offset + debug_info_offset), for
\* the object file whose contribution to .debug_info is compunit f.
PubTarget(f) == get_cu(cus, cus[f].offset + inp.cus[f].pub_offset)

\* The object file has a table with records.
HasTable(f) == inp.cus[f].recs # <<>>

\* Another object file's table resolves to the same compunit: the two tasks
\* push_back into one nametypes vector with nothing to order them.
SharesCu(f) ==
  /\ HasTable(f)
  /\ PubTarget(f) # 0
  /\ \E f2 \in AllCus \ {f} : HasTable(f2) /\ PubTarget(f2) = PubTarget(f)

\* Lines 536-538, one task: read_pubnames of the object file whose
\* contribution to .debug_info is compunit f, when no other task writes the
\* vector it pushes to: its steps commute with those of the other tasks and
\* are taken as one.
ReadPubnamesTask(f) ==
  /\ phase = "pubnames"
  /\ f \notin tasks
  /\ ~SharesCu(f)
  /\ LET c    == PubTarget(f)
         recs == inp.cus[f].recs
         nts  == [x \in 1 .. Len(recs) |-> NameType(recs[x].name, recs[x].type)]
     IN  IF HasTable(f) /\ c = 0
           THEN phase' = "fatal" /\ UNCHANGED <<cus, tasks>>
           ELSE /\ cus' = IF HasTable(f) THEN [cus EXCEPT ![c].nametypes = @ \o nts]
                          ELSE cus
                /\ phase' = AfterLoop(f, "uniq")
                /\ tasks' = TasksAfter(f)
  /\ UNCHANGED <<hvars, rvars, tvars, inp, estimator, map, entries, lay, buf, ctr, shdr, run, first_buf, pubs>>

\* Line 503, first half, in a task that shares its vector: push_back reads
\* where the vector ends.
PubRead(f) ==
  /\ phase = "pubnames"
  /\ f \notin tasks
  /\ SharesCu(f)
  /\ pubs.at[f] = -1
  /\ pubs' = [pubs EXCEPT !.at[f] = Len(cus[PubTarget(f)].nametypes)]
  /\ UNCHANGED <<hvars, rvars, tvars, phase, inp, cus, tasks, estimator, map, entries, lay, buf,
                 ctr, shdr, run, first_buf>>

\* Line 503, second half: push_back stores the element where it read the
\* end to be and sets the end behind it.  What other tasks have stored in
\* the vector's memory since stays there, inside or outside the new end.
PubWrite(f) ==
  /\ phase = "pubnames"
  /\ f \notin tasks
  /\ pubs.at[f] # -1
  /\ LET c    == PubTarget(f)
         at   == pubs.at[f]
         rec  == inp.cus[f].recs[pubs.n[f] + 1]
         old  == pubs.data[c]
         elems == [x \in 1 .. (IF at + 1 > Len(old) THEN at + 1 ELSE Len(old)) |->
                     IF x = at + 1 THEN NameType(rec.name, rec.type) ELSE old[x]]
         last == pubs.n[f] + 1 = Len(inp.cus[f].recs)
     IN  /\ pubs' = [pubs EXCEPT !.at[f] = -1, !.n[f] = @ + 1, !.data[c] = elems]
         /\ cus' = [cus EXCEPT ![c].nametypes = SubSeq(elems, 1, at + 1)]
         /\ phase' = IF last THEN AfterLoop(f, "uniq") ELSE phase
         /\ tasks' = IF last THEN TasksAfter(f) ELSE tasks
  /\ UNCHANGED <<hvars, rvars, tvars, inp, estimator, map, entries, lay, buf, ctr, shdr, run,
                 first_buf>>

\* Lines 542-545, one task: sort and remove_duplicates.
UniqTask(i) ==
  /\ phase = "uniq"
  /\ i \notin tasks
  /\ cus' = [cus EXCEPT ![i].nametypes = RemoveDuplicates(SortNameTypes(@))]
  /\ phase' = AfterLoop(i, "estimate")
  /\ tasks' = TasksAfter(i)
  /\ UNCHANGED <<hvars, rvars, tvars, inp, estimator, map, entries, lay, buf, ctr, shdr, run, first_buf, pubs>>

\* Lines 585-590, one task: the hashes of the compunit go into e, and e is
\* merged into the estimator.
EstimateTask(i) ==
  /\ phase = "estimate"
  /\ i \notin tasks
  /\ estimator' = estimator \cup {cus[i].nametypes[x].hash : x \in 1 .. Len(cus[i].nametypes)}
  /\ phase' = AfterLoop(i, "map")
  /\ tasks' = TasksAfter(i)
  /\ UNCHANGED <<hvars, rvars, tvars, inp, cus, map, entries, lay, buf, ctr, shdr, run, first_buf, pubs>>

InsertTaskDone(cs, i) == Len(cs[i].entries) = Len(cs[i].nametypes)

\* Line 592: the map is made.
MakeMap ==
  /\ phase = "map"
  /\ map' = NewMap(MapSizeArg(GetCardinality(estimator)))
  /\ phase' = IF \A i \in AllCus : InsertTaskDone(cus, i) THEN "collect" ELSE "insert"
  /\ UNCHANGED <<hvars, rvars, tvars, inp, cus, tasks, estimator, entries, lay, buf, ctr, shdr, run,
                 first_buf, pubs>>

\* Lines 597-604, one turn of the loop of the task of compunit i: insert,
\* count++, push_back.  A map with no bucket left ends the run.
InsertStep(i) ==
  /\ phase = "insert"
  /\ ~InsertTaskDone(cus, i)
  /\ LET nt == cus[i].nametypes[Len(cus[i].entries) + 1]
         b  == MapBucket(map, nt.name, nt.hash)
         cs == [cus EXCEPT ![i].entries = Append(@, b)]
     IN  IF b = 0
           THEN phase' = "fatal" /\ UNCHANGED <<cus, map>>
           ELSE /\ map' = MapAfterInsert(map, b, nt.name, nt.hash)
                /\ cus' = cs
                /\ phase' = IF \A i2 \in AllCus : InsertTaskDone(cs, i2)
                              THEN "collect" ELSE "insert"
  /\ UNCHANGED <<hvars, rvars, tvars, inp, tasks, estimator, entries, lay, buf, ctr, shdr, run, first_buf, pubs>>

\* Lines 608-617: the live buckets, sorted.
CollectEntries ==
  /\ phase = "collect"
  /\ entries' = SortEntries(map, LiveBuckets(map))
  /\ phase' = "layout"
  /\ UNCHANGED <<hvars, rvars, tvars, inp, cus, tasks, estimator, map, lay, buf, ctr, shdr, run, first_buf, pubs>>

\* Lines 620-643: the header, ht_size, the offsets of the entries, bufsize.
ComputeLayout ==
  /\ phase = "layout"
  /\ lay' = Layout(cus, GetCardinality(estimator), PoolSize(map, entries))
  /\ map' = MapWithOffsets(map, entries)
  /\ phase' = "write"
  /\ UNCHANGED <<hvars, rvars, tvars, inp, cus, tasks, estimator, entries, buf, ctr, shdr, run, first_buf, pubs>>

\* The loop indices at the start of entry k of the symbol table loop.
SymtabCtr(k) ==
  [k |-> k, j |-> ProbeStart(map.slots[entries[k]].hash, lay.ht_size - 1)]

\* The phase and the indices once the symbol table loop has ended.
PhaseAfterSymtab == IF TypeJobs(cus) = <<>> THEN "finish" ELSE "types"

\* Lines 646-669: the buffer, the header, the CU list, the address areas.
WriteFixed ==
  /\ phase = "write"
  /\ buf' = FixedPart(lay, cus)
  /\ IF entries = <<>>
       THEN phase' = PhaseAfterSymtab /\ ctr' = [k |-> 1, j |-> 0]
       ELSE phase' = "symtab" /\ ctr' = SymtabCtr(1)
  /\ UNCHANGED <<hvars, rvars, tvars, inp, cus, tasks, estimator, map, entries, lay, shdr, run, first_buf, pubs>>

\* Lines 680-681: the slot is taken, j = (j + step) & mask.
HtProbe ==
  /\ phase = "symtab"
  /\ SlotOccupied(buf, lay, ctr.j)
  /\ ctr' = [ctr EXCEPT !.j = (ctr.j + ProbeStep(map.slots[entries[ctr.k]].hash,
                                                  lay.ht_size - 1)) % lay.ht_size]
  /\ UNCHANGED <<hvars, rvars, tvars, phase, inp, cus, tasks, estimator, map, entries, lay, buf, shdr, run,
                 first_buf, pubs>>

\* Lines 683-684: the slot is free, the entry goes there; then the next entry.
HtStore ==
  /\ phase = "symtab"
  /\ ~SlotOccupied(buf, lay, ctr.j)
  /\ buf' = WriteBytes(buf, lay.symtab_offset + 8 * ctr.j,
                       LE(map.slots[entries[ctr.k]].name_offset, 4)
                         \o LE(map.slots[entries[ctr.k]].type_offset, 4))
  /\ IF ctr.k = Len(entries)
       THEN phase' = PhaseAfterSymtab /\ ctr' = [k |-> 1, j |-> 0]
       ELSE phase' = "symtab" /\ ctr' = SymtabCtr(ctr.k + 1)
  /\ UNCHANGED <<hvars, rvars, tvars, inp, cus, tasks, estimator, map, entries, lay, shdr, run, first_buf, pubs>>

\* Lines 692-696, one turn of the inner loop: idx = ++p[0]; p[idx] = word.
WriteType ==
  /\ phase = "types"
  /\ LET job  == TypeJobs(cus)[ctr.k]
         i    == job[1]
         j    == job[2]
         p    == lay.const_pool_offset + map.slots[cus[i].entries[j]].type_offset
         idx  == ReadU32(buf, p) + 1
         b1   == WriteBytes(buf, p, LE(idx, 4))
     IN  buf' = WriteBytes(b1, p + 4 * idx, TypeWord(cus[i].nametypes[j].type, i - 1))
  /\ IF ctr.k = Len(TypeJobs(cus))
       THEN phase' = "names" /\ ctr' = NoCtr
       ELSE phase' = "types" /\ ctr' = [ctr EXCEPT !.k = @ + 1]
  /\ UNCHANGED <<hvars, rvars, tvars, inp, cus, tasks, estimator, map, entries, lay, shdr, run, first_buf, pubs>>

\* Lines 700-702, one task: the name of entry e goes into the pool.
WriteName(e) ==
  /\ phase = "names"
  /\ e \notin tasks
  /\ buf' = write_string(buf, lay.const_pool_offset + map.slots[entries[e]].name_offset,
                         map.slots[entries[e]].name)
  /\ IF tasks \cup {e} = 1 .. Len(entries)
       THEN phase' = "finish" /\ tasks' = {}
       ELSE phase' = "names" /\ tasks' = tasks \cup {e}
  /\ UNCHANGED <<hvars, rvars, tvars, inp, cus, estimator, map, entries, lay, ctr, shdr, run, first_buf, pubs>>

\* Lines 705-708: the section size and the section header.
Finish ==
  /\ phase = "finish"
  /\ shdr' = IF inp.has_shdr
               THEN [sh_size |-> lay.bufsize, copies |-> shdr.copies + 1]
               ELSE shdr
  /\ phase' = "done"
  /\ UNCHANGED <<hvars, rvars, tvars, inp, cus, tasks, estimator, map, entries, lay, buf, ctr, run, first_buf, pubs>>

\* write_gdb_index is run once more on the same input.
Rerun ==
  /\ phase = "done"
  /\ run = 1
  /\ run' = 2
  /\ first_buf' = buf
  /\ phase' = "start"
  /\ cus' = <<>>
  /\ tasks' = {}
  /\ estimator' = {}
  /\ map' = NoMap
  /\ entries' = <<>>
  /\ lay' = NoLayout
  /\ buf' = <<>>
  /\ ctr' = NoCtr
  /\ shdr' = NoShdr
  /\ pubs' = NoPubs(Len(inp.cus))
  /\ UNCHANGED <<hvars, rvars, tvars, inp>>

Next ==
  \/ ReturnEmpty
  \/ ReadCompunits
  \/ \E i \in AllCus : ReadRangesTask(i)
  \/ \E f \in AllCus : ReadPubnamesTask(f)
  \/ \E f \in AllCus : PubRead(f)
  \/ \E f \in AllCus : PubWrite(f)
  \/ \E i \in AllCus : UniqTask(i)
  \/ \E i \in AllCus : EstimateTask(i)
  \/ MakeMap
  \/ \E i \in AllCus : InsertStep(i)
  \/ CollectEntries
  \/ ComputeLayout
  \/ WriteFixed
  \/ HtProbe
  \/ HtStore
  \/ WriteType
  \/ \E e \in 1 .. Len(entries) : WriteName(e)
  \/ Finish
  \/ Rerun

Spec == PipeInit /\ [][Next]_vars

\* The thread that runs the symbol table loop keeps running: a step of the
\* loop that can be taken is taken.
FairSpec == PipeInit /\ [][Next]_vars /\ WF_vars(HtProbe) /\ WF_vars(HtStore)

----------------------------------------------------------------------------
(* read_pubnames: the table loop of the lambda read, on the bytes of one   *)
(* section                                                                 *)

MaxTuples == 4
Slack == 4

\* The u32 at offset off of b, as <<hi16, lo16>>.
U32At(b, off) == <<b[off + 3] + 256 * b[off + 4], b[off + 1] + 256 * b[off + 2]>>

\* u32 + n and u32 - n for a small n, modulo 2^32.
U32Add(w, n) == <<(w[1] + (w[2] + n) \div Half) % Half, (w[2] + n) % Half>>
U32Sub(w, n) == IF w[2] >= n THEN <<w[1], w[2] - n>> ELSE <<(w[1] + Half - 1) % Half, w[2] + Half - n>>

\* A u32 against a size of the model, all of which are below 2^16.
U32Exceeds(w, n) == w[1] > 0 \/ w[2] > n
U32Min(w, n) == IF U32Exceeds(w, n) THEN n ELSE w[2]

\* std::string_view name = data.data(): the offset of the first NUL at or
\* after off, Len(mem) if the memory ends before one is found.
RECURSIVE NulFrom(_, _)
NulFrom(mem, off) ==
  IF off >= Len(mem) THEN Len(mem)
  ELSE IF mem[off + 1] = 0 THEN off
  ELSE NulFrom(mem, off + 1)

\* The inner loop, while (!data.empty()), on the view [lo, hi) of mem.  The
\* reads go through data.data() and are not checked against the view;
\* substr throws when its position exceeds the view's size.
RECURSIVE ReadRecords(_, _, _, _)
ReadRecords(mem, lo, hi, acc) ==
  IF lo = hi THEN [nts |-> acc, how |-> "loop"]
  ELSE IF lo + 4 > Len(mem) THEN [nts |-> acc, how |-> "segfault"]
  ELSE IF hi - lo < 4 THEN [nts |-> acc, how |-> "out_of_range"]
  ELSE IF U32At(mem, lo) = <<0, 0>> THEN [nts |-> acc, how |-> "loop"]
  ELSE IF lo + 4 >= Len(mem) THEN [nts |-> acc, how |-> "segfault"]
  ELSE IF lo + 4 = hi THEN [nts |-> acc, how |-> "out_of_range"]
  ELSE LET nul == NulFrom(mem, lo + 5)
           name == SubSeq(mem, lo + 6, nul)
       IN IF nul = Len(mem) THEN [nts |-> acc, how |-> "segfault"]
          ELSE IF nul + 1 > hi THEN [nts |-> acc, how |-> "out_of_range"]
          ELSE ReadRecords(mem, nul + 1, hi,
                 Append(acc, [at |-> lo, nt |-> NameType(name, mem[lo + 5])]))

\* The compunits get_cu searches, and file.debug_info->offset.
PubCus == <<Compunit(0, 8), Compunit(12, 8)>>
PubFileOffset == 0

\* The bytes of a section.  A table is a 14-byte header (unit_length,
\* version, debug_info_offset, debug_info_length), its records (offset,
\* type, name, NUL) and four zero bytes.
PubRecord(name) == LE(1, 4) \o <<48>> \o name \o <<0>>
PubBody(dio, names) ==
  LE(2, 2) \o LE(dio, 4) \o LE(8, 4)
    \o Flatten([i \in 1 .. Len(names) |-> PubRecord(names[i])]) \o LE(0, 4)
PubNameSeqs == {<<>>, <<Name_a>>, <<Name_a, Name_d>>}
PubBodies == {PubBody(dio, names) : dio \in {0, 5, 12}, names \in PubNameSeqs}
LengthFields(body) ==
  {LE(Len(body), 4), LE(0, 4), LE(Len(body) + 4, 4), <<252, 255, 255, 255>>, <<0, 0, 0, 128>>}
PubTables == UNION {{f \o body : f \in LengthFields(body)} : body \in PubBodies}
PubTails == {<<>>, <<1, 2, 3>>}
PubSections ==
  {<<>>}
    \cup {t \o e : t \in PubTables, e \in PubTails}
    \cup {t1 \o t2 : t1 \in PubTables, t2 \in {LE(Len(b), 4) \o b : b \in PubBodies}}

PubInit ==
  /\ isec \in PubSections
  /\ contents = 0
  /\ data = <<>>
  /\ pushed = <<>>
  /\ pub_state = "loop"
  /\ HashIdle
  /\ RangesIdle
  /\ PipeIdle

\* One pass from the test of while (!contents.empty()) to the inner loop.
TableHeader ==
  /\ pub_state = "loop"
  /\ LET size == Len(isec) - contents
         len == U32Add(U32At(isec, contents), 4)
         debug_info_offset == U32At(isec, contents + 6)
         cu == IF debug_info_offset[1] > 0 THEN 0
               ELSE get_cu(PubCus, PubFileOffset + debug_info_offset[2])
     IN IF size = 0
          THEN pub_state' = "returned" /\ UNCHANGED <<contents, data>>
        ELSE IF size < 14 \/ cu = 0
          THEN pub_state' = "fatal" /\ UNCHANGED <<contents, data>>
        ELSE IF U32Exceeds(len, size)
          THEN pub_state' = "out_of_range" /\ UNCHANGED <<contents, data>>
        ELSE /\ data' = [lo |-> contents + 14,
                         hi |-> contents + 14 + U32Min(U32Sub(len, 14), size - 14),
                         cu |-> cu]
             /\ contents' = contents + len[2]
             /\ pub_state' = "records"
  /\ UNCHANGED <<isec, pushed, hvars, rvars, pvars>>

\* The inner loop.  What lies behind the section in memory is not the
\* program's: Slack bytes of any one value, then nothing that can be read.
\* push_back throws std::bad_alloc when the memory, MaxTuples tuples, is
\* used up.
TableRecords ==
  /\ pub_state = "records"
  /\ \E junk \in {0, 255} :
       LET mem == isec \o [x \in 1 .. Slack |-> junk]
           r == ReadRecords(mem, data.lo, data.hi, <<>>)
           nts == [i \in 1 .. Len(r.nts) |-> [cu |-> data.cu, at |-> r.nts[i].at, nt |-> r.nts[i].nt]]
           room == MaxTuples - Len(pushed)
       IN IF Len(nts) > room
            THEN pushed' = pushed \o SubSeq(nts, 1, room) /\ pub_state' = "bad_alloc"
            ELSE pushed' = pushed \o nts /\ pub_state' = r.how
  /\ data' = <<>>
  /\ UNCHANGED <<isec, contents, hvars, rvars, pvars>>

PubNext ==
  \/ TableHeader
  \/ TableRecords

\* The thread that called read keeps running.
SpecPub == PubInit /\ [][PubNext]_vars /\ WF_vars(TableHeader) /\ WF_vars(TableRecords)

----------------------------------------------------------------------------
(* Claims *)

RangesDone == rout.state = "returned"

\* C1, as stated: after read_compunits every pair (lo, hi) of a compunit's
\* ranges has lo > 0 and lo < hi, whichever decoder produced it.
C1_RangesPositiveAscending ==
  RangesDone =>
    \A k \in 1 .. Len(rout.ranges) :
      rout.ranges[k][1] > 0 /\ rout.ranges[k][1] < rout.ranges[k][2]

\* C1, amended: after read_compunits every pair (lo, hi) of a compunit's
\* ranges has lo # 0 and lo # hi; a pair with lo > hi is kept.
C1_RangesNonZeroNonEmpty ==
  RangesDone =>
    \A k \in 1 .. Len(rout.ranges) :
      rout.ranges[k][1] # 0 /\ rout.ranges[k][1] # rout.ranges[k][2]

\* The filter dropped a pair and kept one.
C1_Witness ==
  /\ RangesDone
  /\ Len(rout.ranges) >= 1
  /\ Len(rraw.ranges) > Len(rout.ranges)

\* What the claim says the legacy decoding of the list at range[off..] is:
\* the pairs before the first (0, 0), the pairs with lo = ~0 left out, each
\* other pair moved by the hi of the last pair with lo = ~0 before it, or by
\* base0 when there is none.
LegacyCount(range, off) ==
  CHOOSE n \in 0 .. Len(range) :
    /\ Cell(range, off + 2 * n) = 0 /\ Cell(range, off + 2 * n + 1) = 0
    /\ \A k \in 0 .. n - 1 :
         Cell(range, off + 2 * k) # 0 \/ Cell(range, off + 2 * k + 1) # 0
LegacyLo(range, off, k) == Cell(range, off + 2 * k)
LegacyHi(range, off, k) == Cell(range, off + 2 * k + 1)
LegacyBaseAt(range, off, base0, k) ==
  LET sel == {j \in 0 .. k - 1 : LegacyLo(range, off, j) = AllOnes}
  IN  IF sel = {} THEN base0
      ELSE LegacyHi(range, off, CHOOSE j \in sel : \A j2 \in sel : j2 <= j)
LegacyExpected(range, off, base0) ==
  LET n    == LegacyCount(range, off)
      idx  == SelectSeq([k \in 1 .. n |-> k - 1],
                        LAMBDA k : LegacyLo(range, off, k) # AllOnes)
  IN  [m \in 1 .. Len(idx) |->
         <<(LegacyLo(range, off, idx[m]) + LegacyBaseAt(range, off, base0, idx[m])) % AddrMod,
           (LegacyHi(range, off, idx[m]) + LegacyBaseAt(range, off, base0, idx[m])) % AddrMod>>]

IsLegacyCu(d) == d.version <= 4 /\ d.ranges.form # "none"

IsUpper(b) == 65 <= b /\ b <= 90
SameLetter(b1, b2) ==
  \/ b1 = b2
  \/ IsUpper(b1) /\ b2 = b1 + 32
  \/ IsUpper(b2) /\ b1 = b2 + 32
SameUpToCase(s1, s2) ==
  /\ Len(s1) = Len(s2)
  /\ \A i \in 1 .. Len(s1) : SameLetter(s1[i], s2[i])

\* The u32 value of the integer n, -2^16 < n < 2^16, as <<hi, lo>>.
SmallU32(n) == IF n < 0 THEN <<Half - 1, Half + n>> ELSE <<0, n>>

\* C8: gdb_hash is h = h * 67 + b - 113 modulo 2^32 over the lowercased
\* bytes: names that differ only in the case of ASCII letters hash equally,
\* and the hash of a one-byte name is that byte, lowercased, minus 113 as a
\* u32.
C8_HashCaseInsensitive ==
  hash_out # <<>> =>
    /\ SameUpToCase(hash_in[1], hash_in[2]) => hash_out[1] = hash_out[2]
    /\ \A k \in 1 .. 2 :
         Len(hash_in[k]) = 1 =>
           hash_out[k] = SmallU32((IF IsUpper(hash_in[k][1]) THEN hash_in[k][1] + 32
                                   ELSE hash_in[k][1]) - 113)

\* Two different names of full length that differ only in case were hashed,
\* and the u32 wrapped.
C8_Witness ==
  /\ hash_out # <<>>
  /\ hash_in[1] # hash_in[2]
  /\ SameUpToCase(hash_in[1], hash_in[2])
  /\ Len(hash_in[1]) = MaxNameLen
  /\ hash_out[1][1] # 0

----------------------------------------------------------------------------
(* Claims about write_gdb_index *)

\* The phases in which the buffer holds the header and the lists.
Written == phase \in {"symtab", "types", "names", "finish", "done"} /\ buf # <<>>

\* write_gdb_index has returned with an index in the buffer.
Emitted == phase = "done" /\ buf # <<>>

UsedBuckets == {b \in 1 .. map.nbuckets : map.slots[b].used}
PoolAt == ReadU32(buf, 20)
SlotBytes(j) == ReadBytes(buf, ReadU32(buf, 16) + 8 * j, 8)
SlotName(j) == ReadU32(buf, ReadU32(buf, 16) + 8 * j)
SlotType(j) == ReadU32(buf, ReadU32(buf, 16) + 8 * j + 4)
HtSlots == 0 .. lay.ht_size - 1

IsPow2(n) == \E k \in 0 .. 16 : n = 2 ^ k
CeilDiv(a, b) == (a + b - 1) \div b

\* C2: once the layout is computed, ht_size is a power of two and at least
\* ceil(N * 5/4), N the number of (name, hash) entries put into the map.
C2_HtSizeCoversEntries ==
  phase \in {"write", "symtab", "types", "names", "finish", "done"} /\ lay # NoLayout
    => /\ IsPow2(lay.ht_size)
       /\ lay.ht_size >= CeilDiv(Cardinality(UsedBuckets) * 5, 4)

\* The bytes from offset off up to the first NUL.
RECURSIVE CStr(_, _)
CStr(b, off) == IF b[off + 1] = 0 THEN <<>> ELSE <<b[off + 1]>> \o CStr(b, off + 1)

\* The word (type_byte << 24) | i for a compunit number below 2^24.
ExpectedWord(type, i) == <<i % 256, (i \div 256) % 256, i \div 65536, type>>

\* The words due under a name: one for every compunit and every tuple of
\* the compunit's deduplicated nametypes that has the name.
ExpectedWords(name) ==
  UNION {{ExpectedWord(cus[i].nametypes[x].type, i - 1) :
            x \in {y \in 1 .. Len(cus[i].nametypes) : cus[i].nametypes[y].name = name}} :
         i \in AllCus}

WordsAt(b, p, n) == [x \in 1 .. n |-> ReadBytes(b, p + 4 * x, 4)]

\* C3: in the emitted index, for every occupied slot (n, t) the u32 at
\* const_pool + t is the positive number of (compunit, type) occurrences of
\* the slot's symbol, and the words behind it are exactly the words
\* (type << 24) | i of those occurrences, each once, with i < |cus|.
C3_CountAndTypeWords ==
  Emitted =>
    \A j \in HtSlots :
      SlotBytes(j) # Zeros(8) =>
        LET count == ReadU32(buf, PoolAt + SlotType(j))
            words == WordsAt(buf, PoolAt + SlotType(j), count)
            want  == ExpectedWords(CStr(buf, PoolAt + SlotName(j)))
        IN  /\ count > 0
            /\ count = Cardinality(want)
            /\ {words[x] : x \in 1 .. count} = want
            /\ \A x \in 1 .. count :
                 words[x][1] + 256 * words[x][2] + 65536 * words[x][3] < Len(cus)

\* A symbol of two compunits, one of them giving it two types.
C3_Witness ==
  /\ Emitted
  /\ \E j \in HtSlots :
       /\ SlotBytes(j) # Zeros(8)
       /\ ReadU32(buf, PoolAt + SlotType(j)) = 3
       /\ WordsAt(buf, PoolAt + SlotType(j), 3) = <<<<0, 0, 0, 48>>, <<1, 0, 0, 48>>, <<1, 0, 0, 176>>>>

InsertionsDone == phase \in {"collect", "layout", "write", "symtab", "types", "names",
                            "finish", "done"} /\ cus # <<>>

\* C4: when every insertion task has ended, under every interleaving: equal
\* (name, hash) tuples of any compunits hold the same handle, entries[j] has
\* the name and hash of nametypes[j], and the counts of the global entries
\* add up to the number of tuples of all compunits.
C4_InsertionHandlesAndCounts ==
  InsertionsDone =>
    /\ \A i \in AllCus : Len(cus[i].entries) = Len(cus[i].nametypes)
    /\ \A i \in AllCus : \A j \in 1 .. Len(cus[i].nametypes) :
         /\ map.slots[cus[i].entries[j]].used
         /\ map.slots[cus[i].entries[j]].name = cus[i].nametypes[j].name
         /\ map.slots[cus[i].entries[j]].hash = cus[i].nametypes[j].hash
    /\ \A i \in AllCus : \A j \in 1 .. Len(cus[i].nametypes) :
         \A i2 \in AllCus : \A j2 \in 1 .. Len(cus[i2].nametypes) :
           /\ cus[i].nametypes[j].name = cus[i2].nametypes[j2].name
           /\ cus[i].nametypes[j].hash = cus[i2].nametypes[j2].hash
           => cus[i].entries[j] = cus[i2].entries[j2]
    /\ SumSeq([b \in 1 .. map.nbuckets |-> map.slots[b].count])
         = SumSeq([i \in 1 .. Len(cus) |-> Len(cus[i].nametypes)])

\* Two compunits hold one handle, and a key is in a bucket that is not its
\* hash's bucket.
C4_Witness ==
  /\ phase = "collect"
  /\ Len(cus) = 2
  /\ \E j \in 1 .. Len(cus[1].entries) : \E j2 \in 1 .. Len(cus[2].entries) :
       /\ cus[1].entries[j] = cus[2].entries[j2]
       /\ map.slots[cus[1].entries[j]].count >= 2
  /\ \E b \in UsedBuckets : b # (map.slots[b].hash[2] % map.nbuckets) + 1

EntrySlotBytes(k) ==
  LE(map.slots[entries[k]].name_offset, 4) \o LE(map.slots[entries[k]].type_offset, 4)

\* A lookup: from slot j on in steps of step, is the slot holding target
\* met before an empty slot, within fuel steps.
RECURSIVE Lookup(_, _, _, _)
Lookup(j, step, target, fuel) ==
  IF SlotBytes(j) = target THEN TRUE
  ELSE IF SlotBytes(j) = Zeros(8) \/ fuel = 0 THEN FALSE
  ELSE Lookup((j + step) % lay.ht_size, step, target, fuel - 1)

SymtabWritten == phase \in {"types", "names", "finish", "done"} /\ buf # <<>>

C5_Slots ==
  SymtabWritten =>
    /\ \A k \in 1 .. Len(entries) :
         Cardinality({j \in HtSlots : SlotBytes(j) = EntrySlotBytes(k)}) = 1
    /\ Cardinality({j \in HtSlots : SlotBytes(j) # Zeros(8)}) = Len(entries)
    /\ \A k \in 1 .. Len(entries) :
         LET h == gdb_hash(map.slots[entries[k]].name)
         IN  Lookup(h[2] % lay.ht_size, BitOr(h[2] % lay.ht_size, 1, 16),
                    EntrySlotBytes(k), lay.ht_size)

C5_NoOverwrite ==
  \A j \in 0 .. 7 :
    /\ phase \in {"symtab", "types", "names", "finish"}
    /\ j < lay.ht_size
    /\ SlotBytes(j) # Zeros(8)
    => ReadBytes(buf', lay.symtab_offset + 8 * j, 8) = SlotBytes(j)

\* C5: once the symbol table is written every global entry is in exactly one
\* slot, as (name_offset, type_offset); the occupied slots are as many as the
\* entries; a lookup from gdb_hash(name) & (ht_size-1) in steps of
\* (hash & (ht_size-1)) | 1 meets the entry's slot before an empty slot; and
\* no step of the writer changes a slot that is occupied.
C5_SymbolTable == []C5_Slots /\ [][C5_NoOverwrite]_vars

\* An entry that is not in its hash's slot, and a slot that is empty.
C5_Witness ==
  /\ Emitted
  /\ \E k \in 1 .. Len(entries) :
       SlotBytes(map.slots[entries[k]].hash[2] % lay.ht_size) # EntrySlotBytes(k)
  /\ \E j \in HtSlots : SlotBytes(j) = Zeros(8)

\* The offsets of the bytes of the words of the type arrays, count cells
\* left out, counted from 1 as the buffer's indices are.
SubArrayBytes ==
  UNION {{PoolAt + map.slots[entries[k]].type_offset + 4 + x :
            x \in 1 .. 4 * map.slots[entries[k]].count} : k \in 1 .. Len(entries)}

SameBag(q, r) ==
  /\ Len(q) = Len(r)
  /\ \A w \in {q[x] : x \in 1 .. Len(q)} \cup {r[x] : x \in 1 .. Len(r)} :
       Cardinality({x \in 1 .. Len(q) : q[x] = w})
         = Cardinality({x \in 1 .. Len(r) : r[x] = w})

\* C6: the buffer of the second run equals the buffer of the first run on the
\* same input, whatever the two schedules, in every byte outside the words of
\* the type arrays, and every type array holds the same words in both.
C6_RunsAgree ==
  Emitted /\ run = 2 =>
    /\ Len(buf) = Len(first_buf)
    /\ \A x \in 1 .. Len(buf) : x \notin SubArrayBytes => buf[x] = first_buf[x]
    /\ \A k \in 1 .. Len(entries) :
         LET p == PoolAt + map.slots[entries[k]].type_offset
             n == map.slots[entries[k]].count
         IN  SameBag(WordsAt(buf, p, n), WordsAt(first_buf, p, n))

\* The running offset after the type arrays of the first k sorted entries,
\* and after the names of the first k.
TypeRun(k) == SumSeq([x \in 1 .. k |-> 4 * (map.slots[entries[x]].count + 1)])
NameRun(k) == SumSeq([x \in 1 .. k |-> Len(map.slots[entries[x]].name) + 1])
FilteredRanges ==
  SumSeq([i \in 1 .. NCus |-> Len(CompunitRanges(inp.cus[i].dwarf).ranges)])

\* C7: the header in the buffer is version 7, cu_list_offset 24,
\* cu_types_offset = ranges_offset = 24 + 16 * |cus|, symtab_offset =
\* ranges_offset + 20 * (number of filtered ranges), const_pool_offset =
\* symtab_offset + 8 * ht_size; the type arrays come first in the pool, each
\* 4 * (count + 1) bytes from its type_offset, then the names, each
\* |name| + 1 bytes from its name_offset; and the buffer's length is
\* const_pool_offset plus the final running offset.
C7_HeaderAndLayout ==
  Written =>
    /\ ReadU32(buf, 0) = 7
    /\ ReadU32(buf, 4) = 24
    /\ ReadU32(buf, 8) = 24 + 16 * NCus
    /\ ReadU32(buf, 12) = 24 + 16 * NCus
    /\ ReadU32(buf, 16) = 24 + 16 * NCus + 20 * FilteredRanges
    /\ ReadU32(buf, 20) = 24 + 16 * NCus + 20 * FilteredRanges + 8 * lay.ht_size
    /\ Len(cus) = NCus
    /\ \A k \in 1 .. Len(entries) :
         /\ map.slots[entries[k]].type_offset = TypeRun(k - 1)
         /\ map.slots[entries[k]].name_offset = TypeRun(Len(entries)) + NameRun(k - 1)
    /\ Len(buf) = ReadU32(buf, 20) + TypeRun(Len(entries)) + NameRun(Len(entries))

\* Two compunits with ranges, three symbols, one of them counted twice.
C7_Witness ==
  /\ Written
  /\ FilteredRanges >= 3
  /\ Len(entries) = 3
  /\ \E k \in 1 .. Len(entries) : map.slots[entries[k]].count >= 2
  /\ map.slots[entries[2]].type_offset > 8

\* C9: with .debug_info absent or of length zero write_gdb_index returns at
\* once: the buffer is not resized or written, no compunit is read, and the
\* section size and the section header stay as they were.
C9_EmptyInputNoOutput ==
  inp.cus = <<>> /\ phase # "idle" =>
    /\ phase \in {"start", "done"}
    /\ buf = <<>>
    /\ cus = <<>>
    /\ map = NoMap
    /\ lay = NoLayout
    /\ shdr = NoShdr

\* The call has returned on an empty input, the section header being there.
C9_Witness == inp.cus = <<>> /\ inp.has_shdr /\ phase = "done" /\ run = 2

----------------------------------------------------------------------------
(* Claims about the decoders of read_address_ranges *)

\* The entry kinds of a range list, and the cells an entry takes, its kind
\* included.
BaseKinds == {"base_addressx", "base_address"}
PairKinds == {"startx_endx", "startx_length", "offset_pair", "start_end", "start_length"}
EntryCells(kind) == IF kind \in BaseKinds THEN 2 ELSE 3

\* The positions of the entries of the list at p, up to its end_of_list; a
\* cell that is no entry kind where a kind is due ends the walk with -1.
RECURSIVE EntryPositions(_, _)
EntryPositions(list, p) ==
  IF Cell(list, p) = "end_of_list" THEN <<>>
  ELSE IF Cell(list, p) \notin BaseKinds \cup PairKinds THEN <<-1>>
  ELSE <<p>> \o EntryPositions(list, p + EntryCells(Cell(list, p)))

WellFormedList(list, p) == \A k \in DOMAIN EntryPositions(list, p) : EntryPositions(list, p)[k] # -1

\* The base in force at entry k: what the last base entry before it says, or
\* base0 when there is none.
RleBaseAt(list, pos, addrx, base0, k) ==
  LET sel == {j \in 1 .. k - 1 : Cell(list, pos[j]) \in BaseKinds}
      j   == CHOOSE j \in sel : \A j2 \in sel : j2 <= j
  IN  IF sel = {} THEN base0
      ELSE IF Cell(list, pos[j]) = "base_address" THEN Cell(list, pos[j] + 1)
      ELSE addrx[Cell(list, pos[j] + 1) + 1]

\* The pair the claim gives entry k.
RlePair(list, pos, addrx, base0, k) ==
  LET kind == Cell(list, pos[k])
      a    == Cell(list, pos[k] + 1)
      b    == Cell(list, pos[k] + 2)
      base == RleBaseAt(list, pos, addrx, base0, k)
  IN  CASE kind = "startx_endx"   -> <<addrx[a + 1], addrx[b + 1]>>
        [] kind = "startx_length" -> <<addrx[a + 1], (addrx[a + 1] + b) % AddrMod>>
        [] kind = "offset_pair"   -> <<(base + a) % AddrMod, (base + b) % AddrMod>>
        [] kind = "start_end"     -> <<a, b>>
        [] kind = "start_length"  -> <<a, (a + b) % AddrMod>>

RleExpected(list, p, addrx, base0) ==
  LET pos == EntryPositions(list, p)
      idx == SelectSeq([k \in 1 .. Len(pos) |-> k], LAMBDA k : Cell(list, pos[k]) \in PairKinds)
  IN  [m \in 1 .. Len(idx) |-> RlePair(list, pos, addrx, base0, idx[m])]

IsRnglistCu(d) == d.version = 5 /\ d.ranges.form = "sec_offset"
IsRnglistxCu(d) == d.version = 5 /\ d.ranges.form = "rnglistx" /\ d.rnglists_base # -1

\* C11: read_rnglist_range, on a list of entries that ends in end_of_list,
\* stops at the first end_of_list and appends, in stream order: nothing for
\* base_addressx i and base_address v, which set the base to addrx[i] and v;
\* (addrx[i], addrx[j]) for startx_endx; (addrx[i], addrx[i] + n) for
\* startx_length; (base + a, base + b) for offset_pair with the base in force;
\* (a, b) for start_end; (a, a + n) for start_length.  A compunit whose
\* DW_AT_ranges is an index gets the lists of its offset table one behind the
\* other, each decoded from the initial base.
C11_RnglistDecoding ==
  /\ (rraw.state # "pending" /\ IsRnglistCu(rcu)
        /\ WellFormedList(rcu.debug_rnglists, rcu.ranges.value))
     => /\ rraw.state = "returned"
        /\ rraw.ranges = RleExpected(rcu.debug_rnglists, rcu.ranges.value, rcu.addrx,
                                     rcu.low_pc.value)
  /\ (rraw.state # "pending" /\ IsRnglistxCu(rcu)
        /\ \A x \in 1 .. Len(rcu.rnglist_offsets) :
             WellFormedList(rcu.debug_rnglists, rcu.rnglists_base + rcu.rnglist_offsets[x]))
     => /\ rraw.state = "returned"
        /\ rraw.ranges =
             Flatten([x \in 1 .. Len(rcu.rnglist_offsets) |->
                        RleExpected(rcu.debug_rnglists,
                                    rcu.rnglists_base + rcu.rnglist_offsets[x],
                                    rcu.addrx, rcu.low_pc.value)])

\* A base_addressx that changes the base, then an offset_pair decoded with
\* it: scenario 3 of the specification at the model's scale.
C11_Witness ==
  /\ rraw.state = "returned"
  /\ IsRnglistCu(rcu)
  /\ rcu.low_pc.value = 1
  /\ rcu.addrx = <<0, 2>>
  /\ Cell(rcu.debug_rnglists, rcu.ranges.value) = "base_addressx"
  /\ Cell(rcu.debug_rnglists, rcu.ranges.value + 1) = 1
  /\ Cell(rcu.debug_rnglists, rcu.ranges.value + 2) = "offset_pair"
  /\ Cell(rcu.debug_rnglists, rcu.ranges.value + 3) = 1
  /\ Cell(rcu.debug_rnglists, rcu.ranges.value + 4) = AllOnes
  /\ Cell(rcu.debug_rnglists, rcu.ranges.value + 5) = "end_of_list"
  /\ rraw.ranges = <<<<(2 + 1) % AddrMod, (2 + AllOnes) % AddrMod>>>>

\* The forms the claim reads as an index into the address table.
AddrxStarForms == {"addrx", "addrx1", "addrx2", "addrx3", "addrx4"}

\* The address a record of form addr or of an addrx* form stands for.
FormAddress(d, rec) ==
  IF rec.form = "addr" THEN rec.value ELSE d.addrx[rec.value + 1]

IsContiguousCu(d) == d # NoCu /\ d.ranges.form = "none"

\* C12: without a ranges attribute and with low_pc and high_pc both present,
\* read_address_ranges returns the one pair (lo, hi): lo is low_pc.value for
\* form addr and addrx[low_pc.value] for addrx, addrx1, addrx2, addrx3,
\* addrx4; hi is high_pc.value for form addr, addrx[high_pc.value] for the
\* addrx forms, lo + high_pc.value for udata, data1, data2, data4, data8; any
\* other form is fatal; with low_pc or high_pc absent the list is empty.
C12_ContiguousForms ==
  (rraw.state # "pending" /\ IsContiguousCu(rcu)) =>
    LET lf == rcu.low_pc.form
        hf == rcu.high_pc.form
        lo == FormAddress(rcu, rcu.low_pc)
    IN  IF lf = "none" \/ hf = "none" THEN rraw = Ranges(<<>>)
        ELSE IF lf \notin {"addr"} \cup AddrxStarForms THEN rraw.state = "fatal"
        ELSE IF hf \in {"addr"} \cup AddrxStarForms
          THEN rraw = Ranges(<<<<lo, FormAddress(rcu, rcu.high_pc)>>>>)
        ELSE IF hf \in {"udata", "data1", "data2", "data4", "data8"}
          THEN rraw = Ranges(<<<<lo, (lo + rcu.high_pc.value) % AddrMod>>>>)
        ELSE rraw.state = "fatal"

----------------------------------------------------------------------------
(* Claims about the tasks and loops of write_gdb_index *)

\* The bucket of the symbol whose type array job k of the loop writes to.
JobEntry(k) == cus[TypeJobs(cus)[k][1]].entries[TypeJobs(cus)[k][2]]

\* A step that appends the word of job k to the type array of its symbol.
WritesJob(k) ==
  LET i   == TypeJobs(cus)[k][1]
      j   == TypeJobs(cus)[k][2]
      p   == lay.const_pool_offset + map.slots[JobEntry(k)].type_offset
      idx == ReadU32(buf, p) + 1
  IN  buf' = WriteBytes(WriteBytes(buf, p, LE(idx, 4)), p + 4 * idx,
                        <<(i - 1) % 256, ((i - 1) \div 256) % 256, (i - 1) \div 65536,
                          cus[i].nametypes[j].type>>)

\* C13, as stated: the words of a symbol's type array are written by
\* concurrently running writers that take their index from the count cell,
\* so the order of the words is not fixed: while two words of one array are
\* still to be written, either can be the next one written.
C13_ConcurrentTypeWriters ==
  phase = "types" =>
    \A k \in 1 .. Len(TypeJobs(cus)) :
      k > ctr.k /\ JobEntry(k) = JobEntry(ctr.k) => ENABLED (Next /\ WritesJob(k))

\* The compunit number and the type byte of word x of the array at p.
WordCu(b, p, x) == ReadBytes(b, p + 4 * x, 3)[1] + 256 * ReadBytes(b, p + 4 * x, 3)[2]
                     + 65536 * ReadBytes(b, p + 4 * x, 3)[3]
WordTypeByte(b, p, x) == ReadBytes(b, p + 4 * x, 4)[4]

\* C13, amended: the type words are written by one sequential loop, over the
\* compunits in index order and over each compunit's sorted tuples in order:
\* in every type array the words stand in ascending compunit order and the
\* words of one compunit in ascending type order, so the order of the words
\* an array holds is fixed by the words and no schedule changes it.
C13_TypeOrderFixed ==
  Emitted =>
    \A k \in 1 .. Len(entries) :
      LET p == PoolAt + map.slots[entries[k]].type_offset
      IN  \A x \in 1 .. ReadU32(buf, p) - 1 :
            \/ WordCu(buf, p, x) < WordCu(buf, p, x + 1)
            \/ /\ WordCu(buf, p, x) = WordCu(buf, p, x + 1)
               /\ WordTypeByte(buf, p, x) < WordTypeByte(buf, p, x + 1)

\* The second run has ended, with a type array of three words of two
\* compunits, and other type words were written between them.
C13_Witness ==
  /\ Emitted
  /\ run = 2
  /\ \E k \in 1 .. Len(entries) :
       /\ map.slots[entries[k]].count = 3
       /\ WordCu(buf, PoolAt + map.slots[entries[k]].type_offset, 1) = 0
       /\ WordCu(buf, PoolAt + map.slots[entries[k]].type_offset, 3) = 1
  /\ Len(entries) >= 2

\* The tasks of the parallel loop of the phase that have not ended.
RunningTasks ==
  CASE phase \in {"ranges", "pubnames", "uniq"} -> AllCus \ tasks
    [] phase = "insert" -> {i \in AllCus : ~InsertTaskDone(cus, i)}
    [] phase = "names" -> (1 .. Len(entries)) \ tasks
    [] OTHER -> {}

\* The memory task t of the phase writes, the map and the counts left out:
\* a vector of a compunit, or bytes of the buffer.
WriteSet(t) ==
  CASE phase = "ranges" -> {<<"ranges", t>>}
    [] phase = "pubnames" ->
         IF HasTable(t) /\ PubTarget(t) # 0 THEN {<<"nametypes", PubTarget(t)>>} ELSE {}
    [] phase = "uniq" -> {<<"nametypes", t>>}
    [] phase = "insert" -> {<<"entries", t>>}
    [] phase = "names" ->
         {<<"buf", lay.const_pool_offset + map.slots[entries[t]].name_offset + x>> :
            x \in 0 .. Len(map.slots[entries[t]].name)}
    [] OTHER -> {}

\* C14: in every parallel phase (ranges, pubnames, sort and dedupe,
\* insertion, names) two tasks that run at the same time never write the
\* same memory, the map and the atomic counts apart: a compunit's ranges,
\* nametypes and entries are written by one task at a time, whatever offsets
\* the pubname tables name, and the bytes of a name by one task.
C14_TasksWriteDisjointMemory ==
  \A t1 \in RunningTasks : \A t2 \in RunningTasks \ {t1} :
    WriteSet(t1) \cap WriteSet(t2) = {}

\* C15: the loop that builds the symbol table ends on every input: whenever
\* an entry is to be placed a slot of the ht_size slots is still free (the
\* entries are never more than ht_size), so the probe finds a free slot and
\* the loop is left.
C15_SymtabLoopEnds ==
  /\ [](phase = "symtab" => \E j \in HtSlots : ~SlotOccupied(buf, lay, j))
  /\ (phase = "symtab") ~> (phase # "symtab")

\* C16: the table loop of read_pubnames ends on every section: a pass that
\* does not abort removes at least one byte from contents, the call leaves
\* the loop, and no record of the section is pushed to a compunit twice.
C16_TableLoopEnds ==
  /\ [][pub_state = "loop" /\ pub_state' = "records" => contents' > contents]_vars
  /\ [](\A i, j \in 1 .. Len(pushed) : i # j => pushed[i].at # pushed[j].at)
  /\ <>(pub_state \notin {"loop", "records"})

====
